---- MODULE Spec2Model ----
(***************************************************************************)
(* A model of the two Deribit trackers:                                    *)
(*   deribit_apr_calculator.py   (DeribitMultiTracker,  tool = "apr")      *)
(*   deribit_matrix_watcher.py   (DeribitSpreadsTracker, tool = "matrix")  *)
(* Spec      : the run loop of either tool, one action per blocking call   *)
(*             (HTTP fetch, sheet read, sheet write, sleep), with the      *)
(*             worksheet as shared state.                                  *)
(* FairSpec  : Spec with weak fairness of the loop's own steps.            *)
(* SpecMetric: the metric functions applied to bounded inputs.             *)
(***************************************************************************)
EXTENDS Integers, Sequences, FiniteSets, TLC

\* ------------------------------------------------------------------ bounds
\* dated futures a currency's book summary may list
MaxFutures == 2
\* contracts (perpetual + futures) a currency may list in the matrix tool
MaxN == 2
\* distinct readings of the wall clock (to the second)
ClockTicks == 2
\* sheet writes that succeed before the backend starts refusing them
MaxWrites == 2
\* instruments in one fetched list
MaxFetched == 3
\* contracts of a currency when create_matrix is called on its own
MaxContracts == 3

\* ------------------------------------------------------- program constants
CURRENCIES == <<"BTC", "ETH">>
UPDATE_INTERVAL == 10
AprBackoff == 30
MatrixBackoff == 60
NeedsStructureRows == 5

NCur == Len(CURRENCIES)
CurrencySet == {CURRENCIES[i] : i \in 1..NCur}

VARIABLES
  tool,      \* which program runs: "apr" | "matrix"
  pc,        \* position of the run loop
  cur,       \* index into CURRENCIES of the fetch loop
  data,      \* all_currency_data (apr) / all_matrices (matrix)
  ws,        \* the worksheet: rows of cells
  now,       \* the clock reading update_sheet took in this cycle
  needs,     \* needs_structure of update_combined_sheet
  success,   \* the local `success` of run()
  changes,   \* the update requests ({range, values}) update_sheet batched
  ops,       \* blocking calls issued in the current cycle
  slept,     \* seconds of the sleep the loop is in / was last in
  intAt,     \* position at which a KeyboardInterrupt arrived in this cycle
  exitVia,   \* how run() ended: "none" | "shutdown" | "uncaught"
  prev,      \* all_matrices of the previous cycle, per currency not yet
             \* fetched again, when its update_sheet returned True
  same,      \* the currencies fetched so far returned what prev held
  writes,    \* sheet writes that have succeeded
  call,      \* SpecMetric: the function applied and its arguments
  ret        \* SpecMetric: what it returned

vars == <<tool, pc, cur, data, ws, now, needs, success, changes, ops, slept,
          intAt, exitVia, prev, same, writes, call, ret>>

\* ------------------------------------------------------------- worksheet
SetMax(S) == CHOOSE x \in S : \A y \in S : y <= x

Max(a, b) == IF a >= b THEN a ELSE b

\* The grid is large enough for every layout either tool can write.
SheetRows == Max(4 + 4 * (MaxN + 3), 2 * (MaxFutures + 4))
SheetCols == MaxN + 1

\* An empty cell reads back as "".
Blank == <<>>
Dash == <<"-">>

BlankSheet == [r \in 1..SheetRows |-> [c \in 1..SheetCols |-> Blank]]

LastRow(w) ==
  LET used == {r \in 1..SheetRows : \E c \in 1..SheetCols : w[r][c] # Blank}
  IN IF used = {} THEN 0 ELSE SetMax(used)

LastCol(w) ==
  LET used == {c \in 1..SheetCols : \E r \in 1..SheetRows : w[r][c] # Blank}
  IN IF used = {} THEN 0 ELSE SetMax(used)

\* worksheet.get_all_values(): the grid up to the last non-empty row and
\* column, every row filled to the same width.
get_all_values(w) ==
  [r \in 1..LastRow(w) |-> [c \in 1..LastCol(w) |-> w[r][c]]]

\* ------------------------------------------------- apr tool: the sheet rows
\* The apr tool writes whole rows A..I; a row is modelled by one cell (column
\* 1) holding what the row is.
Marker(c) == <<"marker", c>>
Headers == <<"headers">>
DataRow(k) == <<"data", k[1], k[2]>>

RowCells(x) == [c \in 1..SheetCols |-> IF c = 1 THEN x ELSE Blank]

\* The answers of the four requests of fetch_currency_data.
Responses ==
  [instruments : BOOLEAN, summaryPerp : BOOLEAN, nfut : 0..MaxFutures,
   perpBook : BOOLEAN, index : BOOLEAN, raises : BOOLEAN]

\* fetch_currency_data: the contract list ("BTC", 0) is the perpetual,
\* ("BTC", k) the k-th dated future by expiration.
fetch_currency_data(c, r) ==
  IF ~r.instruments THEN <<>>
  ELSE IF ~r.summaryPerp /\ r.nfut = 0 THEN <<>>
  ELSE IF ~r.index THEN <<>>
  ELSE IF r.raises THEN <<>>
  ELSE (IF r.perpBook THEN << <<c, 0>> >> ELSE <<>>)
       \o [k \in 1..r.nfut |-> <<c, k>>]

\* needs_structure of update_combined_sheet.
needs_structure(current_values) ==
  \/ Len(current_values) < NeedsStructureRows
  \/ ~ \E r \in 1..Len(current_values) :
         \E c \in 1..Len(current_values[r]) :
           current_values[r][c] = Marker("BTC")

RECURSIVE all_rows_from(_, _)
all_rows_from(d, i) ==
  IF i > NCur THEN <<>>
  ELSE LET c == CURRENCIES[i]
       IN (IF d[c] = <<>> THEN <<>>
           ELSE <<Marker(c), Headers>> \o [j \in 1..Len(d[c]) |-> Blank]
                \o <<Blank>>)
          \o all_rows_from(d, i + 1)

\* all_rows of _setup_initial_structure.
all_rows(d) == all_rows_from(d, 1)

\* worksheet.update(values=all_rows, range_name='A1')
sheet_update(w, rows) ==
  [r \in 1..SheetRows |-> IF r <= Len(rows) THEN RowCells(rows[r]) ELSE w[r]]

RECURSIVE current_row_at(_, _)
\* current_row of _update_data_only when its loop reaches currency i.
current_row_at(d, i) ==
  IF i = 1 THEN 1
  ELSE LET c == CURRENCIES[i - 1]
       IN current_row_at(d, i - 1)
          + (IF d[c] = <<>> THEN 0 ELSE 2 + Len(d[c]) + 1)

\* update_requests of _update_data_only: one range A{row}:I{row} per contract.
update_requests(d) ==
  UNION {
    IF d[CURRENCIES[i]] = <<>> THEN {}
    ELSE { [row |-> current_row_at(d, i) + 2 + (j - 1),
            values |-> DataRow(d[CURRENCIES[i]][j])] :
           j \in 1..Len(d[CURRENCIES[i]]) }
    : i \in 1..NCur }

\* worksheet.batch_update(update_requests) of the apr tool.
apr_batch_update(w, reqs) ==
  [r \in 1..SheetRows |->
     IF \E q \in reqs : q.row = r
     THEN RowCells((CHOOSE q \in reqs : q.row = r).values)
     ELSE w[r]]

\* ------------------------------------------------------------ the run loop
EmptyData == [c \in CurrencySet |-> <<>>]

Io(kind, arg) == <<kind, arg>>

\* What no step of a cycle changes.
LoopFrame == UNCHANGED <<tool, slept, intAt, exitVia, call, ret>>

\* fetch_and_update_all: one pass of `for currency in CONFIG["CURRENCIES"]`,
\* and after the last one the test `if all_currency_data`.
AprFetch ==
  /\ tool = "apr" /\ pc = "fetch"
  /\ \E r \in Responses :
       LET c == CURRENCIES[cur]
           d == [data EXCEPT ![c] = fetch_currency_data(c, r)]
       IN /\ data' = d
          /\ ops' = Append(ops, Io("fetch", c))
          /\ IF cur < NCur
             THEN cur' = cur + 1 /\ pc' = "fetch" /\ UNCHANGED success
             ELSE /\ cur' = cur
                  /\ IF \A x \in CurrencySet : d[x] = <<>>
                     THEN pc' = "report" /\ success' = FALSE
                     ELSE pc' = "read" /\ UNCHANGED success
  /\ UNCHANGED <<ws, needs, changes, now, prev, same, writes>>
  /\ LoopFrame

\* update_combined_sheet: get_all_values inside `try: ... except:`.
AprRead ==
  /\ tool = "apr" /\ pc = "read"
  /\ \E ok \in BOOLEAN :
       /\ needs' = IF ok THEN needs_structure(get_all_values(ws)) ELSE TRUE
       /\ pc' = IF needs' THEN "clear" ELSE "write"
  /\ ops' = Append(ops, Io("read", ""))
  /\ UNCHANGED <<cur, data, ws, success, changes, now, prev, same, writes>>
  /\ LoopFrame

\* _setup_initial_structure: worksheet.clear()
AprClear ==
  /\ tool = "apr" /\ pc = "clear"
  /\ ops' = Append(ops, Io("clear", ""))
  /\ \/ ws' = BlankSheet /\ pc' = "structure" /\ UNCHANGED success
     \/ pc' = "report" /\ success' = FALSE /\ UNCHANGED ws
  /\ UNCHANGED <<cur, data, needs, changes, now, prev, same, writes>>
  /\ LoopFrame

\* _setup_initial_structure: worksheet.update(values=all_rows, ...)
AprStructure ==
  /\ tool = "apr" /\ pc = "structure"
  /\ ops' = Append(ops, Io("write", ""))
  /\ pc' = "report"
  /\ \/ /\ writes < MaxWrites
        /\ ws' = sheet_update(ws, all_rows(data))
        /\ success' = TRUE /\ writes' = writes + 1
     \/ success' = FALSE /\ UNCHANGED <<ws, writes>>
  /\ UNCHANGED <<cur, data, needs, changes, now, prev, same>>
  /\ LoopFrame

\* _update_data_only: worksheet.batch_update(update_requests)
AprWrite ==
  /\ tool = "apr" /\ pc = "write"
  /\ ops' = Append(ops, Io("write", ""))
  /\ pc' = "report"
  /\ changes' = {[range |-> <<q.row, 1>>, values |-> q.values] :
                   q \in update_requests(data)}
  /\ \/ /\ writes < MaxWrites
        /\ ws' = apr_batch_update(ws, update_requests(data))
        /\ success' = TRUE /\ writes' = writes + 1
     \/ success' = FALSE /\ UNCHANGED <<ws, writes>>
  /\ UNCHANGED <<cur, data, needs, now, prev, same>>
  /\ LoopFrame

\* --------------------------------------------------- matrix tool: the data
\* Prices are counted in hundredths, as the exchange quotes them.
None == <<>>
Some(x) == <<x>>

\* mark prices get_perpetual_price may return (None: the request failed)
PerpMarks == {None, Some(5000000)}
\* mark prices get_orderbook may return for a spread instrument
SpreadMarks == {None, Some(254)}
\* What the instrument listing and the order book answer for one pair: no
\* spread instrument, or one named in date order ("fwd") or in the reverse
\* order ("rev"), with its mark price.
SpreadAnswers ==
  {<<"none", None>>} \cup {<<o, m>> : o \in {"fwd", "rev"}, m \in SpreadMarks}

Pairs(n) == {p \in (1..n) \X (1..n) : p[1] < p[2]}

\* a / b rounded to the nearest integer, ties to the even one (b > 0)
RoundDiv(a, b) ==
  LET q == a \div b
      r == a % b
  IN IF 2 * r < b THEN q
     ELSE IF 2 * r > b THEN q + 1
     ELSE IF q % 2 = 0 THEN q ELSE q + 1

Name(c, i) == <<"name", c, i>>
\* f"{x:.1f}" of a price: its text, in tenths
Fix1(hundredths) == <<"fix1", RoundDiv(hundredths, 10)>>
\* f"{x:.2f}" of a price: its text, in hundredths
Fix2(hundredths) == <<"fix2", hundredths>>
\* f"{x:.4f}%": its text, in ten-thousandths of a percent
Pct(tenthousandths) == <<"pct", tenthousandths>>
Ts(t) == <<"ts", t>>

\* find_spread_id trying only the name in date order
find_spread_id_one_order(i, j, listed) ==
  IF <<i, j>> \in listed THEN Some(<<i, j>>) ELSE None

\* find_spread_id: `listed` holds the ordered index pairs under which a
\* spread instrument is listed.
find_spread_id(i, j, listed) ==
  IF <<i, j>> \in listed THEN Some(<<i, j>>)
  ELSE IF <<j, i>> \in listed THEN Some(<<j, i>>)
  ELSE None

\* create_matrix for a currency listing n contracts (the perpetual first,
\* then the futures by expiration); ans[p] answers for the pair p.
create_matrix(c, n, perp, ans) ==
  IF n < 2 THEN <<>>
  ELSE
    LET listed == {p \in Pairs(n) : ans[p][1] = "fwd"}
                  \cup {<<p[2], p[1]>> : p \in {q \in Pairs(n) : ans[q][1] = "rev"}}
        quote(id) == IF id[1] < id[2] THEN ans[id][2] ELSE ans[<<id[2], id[1]>>][2]
        perp_price_display ==
          IF perp # None /\ perp[1] # 0 THEN Fix2(perp[1]) ELSE Dash
        header == <<perp_price_display>> \o [i \in 1..n |-> Name(c, i)]
        cell(i, j) ==
          IF i = j THEN Dash
          ELSE IF i < j
          THEN LET spread_id == find_spread_id(i, j, listed)
               IN IF spread_id # None
                  THEN LET mark_price == quote(spread_id[1])
                       IN IF mark_price # None /\ mark_price[1] # 0
                          THEN Fix1(mark_price[1]) ELSE Blank
                  ELSE Blank
          ELSE Dash
        row(i) == <<Name(c, i)>> \o [j \in 1..n |-> cell(i, j)]
    IN <<header>> \o [i \in 1..n |-> row(i)]

\* create_percentage_matrix with the ratio spread / perpetual not multiplied
\* by 100
create_percentage_matrix_no_times_100(spread_matrix, perp) ==
  IF perp = None \/ perp[1] = 0 THEN <<>>
  ELSE
    LET new_cell(v) ==
          IF v # Blank /\ v # Dash
          THEN IF v[1] = "fix1"
               THEN Pct(RoundDiv(v[2] * 100000, perp[1]))
               ELSE Blank
          ELSE v
        new_row(row) == <<row[1]>> \o [j \in 1..(Len(row) - 1) |-> new_cell(row[j + 1])]
    IN <<spread_matrix[1]>>
       \o [i \in 1..(Len(spread_matrix) - 1) |-> new_row(spread_matrix[i + 1])]

\* create_percentage_matrix
create_percentage_matrix(spread_matrix, perp) ==
  IF perp = None \/ perp[1] = 0 THEN <<>>
  ELSE
    LET new_cell(v) ==
          IF v # Blank /\ v # Dash
          THEN IF v[1] = "fix1"
               THEN Pct(RoundDiv(v[2] * 10000000, perp[1]))
               ELSE Blank
          ELSE v
        new_row(row) == <<row[1]>> \o [j \in 1..(Len(row) - 1) |-> new_cell(row[j + 1])]
    IN <<spread_matrix[1]>>
       \o [i \in 1..(Len(spread_matrix) - 1) |-> new_row(spread_matrix[i + 1])]

RECURSIVE spread_data_from(_, _)
spread_data_from(d, i) ==
  IF i > NCur THEN <<>>
  ELSE LET m == d[CURRENCIES[i]]
       IN (IF m = <<>> THEN <<>> ELSE m[1] \o << <<>>, <<>> >>)
          \o spread_data_from(d, i + 1)

RECURSIVE percentage_data_from(_, _)
percentage_data_from(d, i) ==
  IF i > NCur THEN <<>>
  ELSE LET m == d[CURRENCIES[i]]
           pm == IF m = <<>> THEN <<>> ELSE create_percentage_matrix(m[1], m[2])
       IN (IF pm = <<>> THEN <<>> ELSE pm \o << <<>>, <<>> >>)
          \o percentage_data_from(d, i + 1)

\* run_once: spread_data and percentage_data built from all_matrices
spread_data(d) == spread_data_from(d, 1)
percentage_data(d) == percentage_data_from(d, 1)

\* ---------------------------------------------- matrix tool: update_sheet
\* new_data of update_sheet
new_data(sd, pd, t) ==
  << <<Ts(t)>>, <<>> >> \o sd \o << <<>>, <<>> >> \o pd

\* current_value of update_sheet, for 0-based row_idx and col_idx
current_value(current_data, row_idx, col_idx) ==
  LET current_row == IF row_idx < Len(current_data)
                     THEN current_data[row_idx + 1] ELSE <<>>
  IN IF col_idx < Len(current_row) THEN current_row[col_idx + 1] ELSE Blank

\* cell_address with the 0-based row index passed on as it is
cell_address_row0(row_idx, col_idx) == <<row_idx, col_idx + 1>>

\* gspread.utils.rowcol_to_a1(row_idx + 1, col_idx + 1)
cell_address(row_idx, col_idx) == <<row_idx + 1, col_idx + 1>>

\* changes of update_sheet
find_changes(nd, current_data) ==
  { [range |-> cell_address(rc[1], rc[2]), values |-> nd[rc[1] + 1][rc[2] + 1]] :
    rc \in { x \in (0..(Len(nd) - 1)) \X (0..(SheetCols - 1)) :
             /\ x[2] < Len(nd[x[1] + 1])
             /\ nd[x[1] + 1][x[2] + 1] # current_value(current_data, x[1], x[2]) } }

\* worksheet.batch_update(changes): every range is one cell
batch_update(w, reqs) ==
  [r \in 1..SheetRows |-> [c \in 1..SheetCols |->
     IF \E q \in reqs : q.range = <<r, c>>
     THEN (CHOOSE q \in reqs : q.range = <<r, c>>).values
     ELSE w[r][c]]]

\* run_once: one pass of `for currency in CONFIG["CURRENCIES"]`, and after
\* the last one the test `if all_matrices`.
MxFetch ==
  /\ tool = "matrix" /\ pc = "fetch"
  /\ \E n \in 0..MaxN, perp \in PerpMarks, ans \in [Pairs(MaxN) -> SpreadAnswers] :
       LET c == CURRENCIES[cur]
           m == create_matrix(c, n, perp, ans)
           d == [data EXCEPT ![c] = IF m = <<>> THEN <<>> ELSE <<m, perp>>]
       IN /\ data' = d
          /\ same' = (same /\ d[c] = prev[c])
          /\ prev' = [prev EXCEPT ![c] = <<>>]
          /\ ops' = Append(ops, Io("fetch", c))
          /\ IF cur < NCur
             THEN cur' = cur + 1 /\ pc' = "fetch" /\ UNCHANGED success
             ELSE /\ cur' = cur
                  /\ IF \A x \in CurrencySet : d[x] = <<>>
                     THEN pc' = "report" /\ success' = FALSE
                     ELSE pc' = "read" /\ UNCHANGED success
  /\ UNCHANGED <<ws, needs, changes, now, writes>>
  /\ LoopFrame

\* What datetime.now(timezone.utc) can read in update_sheet: the clock has
\* moved on since the reading the sheet's timestamp cell was written from.
Readings(w) == {t \in 0..(ClockTicks - 1) : Ts(t) # w[1][1]}

\* update_sheet: get_all_values, then the diff against new_data
MxRead ==
  /\ tool = "matrix" /\ pc = "read"
  /\ ops' = Append(ops, Io("read", ""))
  /\ \/ changes' = {} /\ pc' = "report" /\ success' = FALSE /\ UNCHANGED now
     \/ \E t \in Readings(ws) :
          /\ now' = t
          /\ changes' = find_changes(
                          new_data(spread_data(data), percentage_data(data), t),
                          get_all_values(ws))
          /\ IF changes' # {}
             THEN pc' = "write" /\ UNCHANGED success
             ELSE pc' = "report" /\ success' = TRUE
  /\ UNCHANGED <<cur, data, ws, needs, prev, same, writes>>
  /\ LoopFrame

\* update_sheet: worksheet.batch_update(changes)
MxWrite ==
  /\ tool = "matrix" /\ pc = "write"
  /\ ops' = Append(ops, Io("write", ""))
  /\ pc' = "report"
  /\ \/ /\ writes < MaxWrites
        /\ ws' = batch_update(ws, changes)
        /\ success' = TRUE /\ writes' = writes + 1
     \/ success' = FALSE /\ UNCHANGED <<ws, writes>>
  /\ UNCHANGED <<cur, data, needs, changes, now, prev, same>>
  /\ LoopFrame

\* --------------------------------------------------------------- run()
CycleFrame == UNCHANGED <<tool, cur, data, ws, now, needs, success, changes,
                          ops, intAt, exitVia, prev, same, writes, call, ret>>

\* run: the log line after the cycle, then time.sleep(UPDATE_INTERVAL) starts
Report ==
  /\ pc = "report"
  /\ pc' = "sleep" /\ slept' = UPDATE_INTERVAL
  /\ CycleFrame

\* LoopError with the exception left uncaught: run() ends
LoopErrorEscapes ==
  /\ pc = "report"
  /\ pc' = "stopped" /\ exitVia' = "uncaught"
  /\ UNCHANGED <<tool, cur, data, ws, now, needs, success, changes, ops,
                 slept, intAt, prev, same, writes, call, ret>>

\* run: `except Exception`: an exception raised outside the cycle's own
\* handlers; the backoff sleep starts
LoopError ==
  /\ pc = "report"
  /\ pc' = "backoff"
  /\ slept' = IF tool = "apr" THEN AprBackoff ELSE MatrixBackoff
  /\ CycleFrame

\* The next iteration of `while True`.
NewCycle ==
  /\ pc' = "fetch" /\ cur' = 1 /\ data' = EmptyData /\ ops' = <<>>
  /\ needs' = FALSE /\ changes' = {} /\ now' = 0 /\ success' = FALSE
  /\ slept' = 0 /\ intAt' = "none"
  /\ same' = (tool = "matrix" /\ success
              /\ Io("read", "") \in {ops[i] : i \in 1..Len(ops)})
  /\ prev' = IF same' THEN data ELSE EmptyData
  /\ UNCHANGED <<tool, ws, exitVia, writes, call, ret>>

\* run: time.sleep(CONFIG["UPDATE_INTERVAL"]) returns
Sleep == pc = "sleep" /\ NewCycle

\* run: the sleep of the `except Exception` branch returns
Backoff == pc = "backoff" /\ NewCycle

\* A KeyboardInterrupt raised inside the blocking call the loop is in.
KeyboardInterrupt ==
  /\ pc \notin {"stopped"}
  /\ intAt' = pc
  /\ IF pc = "backoff"
     THEN \* raised inside the `except Exception` handler: leaves run()
          /\ pc' = "stopped" /\ exitVia' = "uncaught"
          /\ UNCHANGED <<cur, data, needs, ops, success, prev, same>>
     ELSE IF tool = "apr" /\ pc = "read"
     THEN \* the bare `except:` of update_combined_sheet takes it
          /\ needs' = TRUE /\ pc' = "clear"
          /\ ops' = Append(ops, Io("read", ""))
          /\ UNCHANGED <<cur, data, exitVia, success, prev, same>>
     ELSE IF tool = "matrix" /\ pc = "fetch"
     THEN \* the bare `except:` of api_get takes it: no contracts
          /\ ops' = Append(ops, Io("fetch", CURRENCIES[cur]))
          /\ same' = (same /\ prev[CURRENCIES[cur]] = <<>>)
          /\ prev' = [prev EXCEPT ![CURRENCIES[cur]] = <<>>]
          /\ IF cur < NCur
             THEN cur' = cur + 1 /\ pc' = "fetch" /\ UNCHANGED success
             ELSE /\ cur' = cur
                  /\ IF \A x \in CurrencySet : data[x] = <<>>
                     THEN pc' = "report" /\ success' = FALSE
                     ELSE pc' = "read" /\ UNCHANGED success
          /\ UNCHANGED <<data, needs, exitVia>>
     ELSE \* run: `except KeyboardInterrupt`: "Shutdown", break
          /\ pc' = "stopped" /\ exitVia' = "shutdown"
          /\ UNCHANGED <<cur, data, needs, ops, success, prev, same>>
  /\ UNCHANGED <<tool, ws, now, changes, slept, writes, call, ret>>

\* ------------------------------------------------------- metric functions
\* Numbers are exact fractions <<numerator, denominator>> in lowest terms
\* with a positive denominator.
Abs(x) == IF x < 0 THEN -x ELSE x

RECURSIVE Gcd(_, _)
Gcd(a, b) == IF b = 0 THEN a ELSE Gcd(b, a % b)

Norm(n, d) ==
  LET g == Gcd(Abs(n), Abs(d))
      sgn == IF d < 0 THEN -1 ELSE 1
  IN <<(sgn * n) \div g, (sgn * d) \div g>>

R(n) == <<n, 1>>
RNeg(a) == <<-a[1], a[2]>>
RAdd(a, b) == Norm(a[1] * b[2] + b[1] * a[2], a[2] * b[2])
RSub(a, b) == RAdd(a, RNeg(b))
RMul(a, b) ==
  LET x == Norm(a[1], b[2])
      y == Norm(b[1], a[2])
  IN Norm(x[1] * y[1], x[2] * y[2])
RDiv(a, b) == RMul(a, Norm(b[2], b[1]))
RLe(a, b) == a[1] * b[2] <= b[1] * a[2]
RLt(a, b) == a[1] * b[2] < b[1] * a[2]
RMax(a, b) == IF RLe(a, b) THEN b ELSE a
RMin(a, b) == IF RLe(a, b) THEN a ELSE b

\* What a call returns: None, a number, a text, or an exception that leaves it.
RetNone == <<"None">>
RetNum(q) == <<"num", q[1], q[2]>>
RetRaise == <<"raise", "TypeError">>
RetMatrix(m) == <<"matrix", m>>

\* `not x` of a price that may be None
Falsy(x) == x = None \/ x[1] = 0

\* the damping band 0.025 and the minutes of a year
Damping == <<1, 40>>
MinutesPerYear == 525600
MsPerMinute == 60000

\* calculate_funding_rate with the lower clamp written min(0.025, premium)
calculate_funding_rate_min_sign(mark_price, index_price) ==
  IF Falsy(mark_price) \/ Falsy(index_price) THEN RetNone
  ELSE
    LET premium_rate ==
          RMul(RDiv(RSub(R(mark_price[1]), R(index_price[1])), R(index_price[1])),
               R(100))
        damped_premium ==
          RAdd(RMax(Damping, premium_rate), RMin(Damping, premium_rate))
    IN RetNum(RDiv(damped_premium, R(100)))

\* calculate_funding_rate(mark_price, index_price)
calculate_funding_rate(mark_price, index_price) ==
  IF Falsy(mark_price) \/ Falsy(index_price) THEN RetNone
  ELSE
    LET premium_rate ==
          RMul(RDiv(RSub(R(mark_price[1]), R(index_price[1])), R(index_price[1])),
               R(100))
        damped_premium ==
          RAdd(RMax(Damping, premium_rate), RMin(RNeg(Damping), premium_rate))
    IN RetNum(RDiv(damped_premium, R(100)))

\* calculate_apr with the ratio kept as mark/index (the `- 1` left out)
calculate_apr_no_minus_one(mark_price, index_price, expiration_ms, now_ms) ==
  IF Falsy(index_price) THEN RetNum(R(0))
  ELSE IF expiration_ms = None THEN RetRaise
  ELSE IF expiration_ms[1] <= 0 THEN RetNum(R(0))
  ELSE
    LET minutes_left == Norm(expiration_ms[1] - now_ms, MsPerMinute)
    IN IF RLe(minutes_left, R(0)) THEN RetNum(R(0))
       ELSE IF mark_price = None THEN RetRaise
       ELSE RetNum(RMul(RDiv(RMul(RDiv(R(mark_price[1]), R(index_price[1])),
                                   R(MinutesPerYear)),
                              minutes_left),
                         R(100)))

\* calculate_apr(mark_price, index_price, expiration_ms), with now_ms the
\* reading of datetime.now(timezone.utc).timestamp() * 1000
calculate_apr(mark_price, index_price, expiration_ms, now_ms) ==
  IF Falsy(index_price) THEN RetNum(R(0))
  ELSE IF expiration_ms = None THEN RetRaise
  ELSE IF expiration_ms[1] <= 0 THEN RetNum(R(0))
  ELSE
    LET minutes_left == Norm(expiration_ms[1] - now_ms, MsPerMinute)
    IN IF RLe(minutes_left, R(0)) THEN RetNum(R(0))
       ELSE IF mark_price = None THEN RetRaise
       ELSE RetNum(RMul(RDiv(RMul(RSub(RDiv(R(mark_price[1]), R(index_price[1])),
                                        R(1)),
                                   R(MinutesPerYear)),
                              minutes_left),
                         R(100)))

\* int(x / y): truncation towards zero (y > 0)
Trunc(x, y) == IF x >= 0 THEN x \div y ELSE -((-x) \div y)

\* format_time with the hours taken as minutes_left // 60 (the `% 1440` left
\* out)
format_time_hours_not_wrapped(expiration_ms, now_ms) ==
  IF expiration_ms = None THEN RetRaise
  ELSE IF expiration_ms[1] <= 0 THEN <<"-">>
  ELSE
    LET minutes_left == Trunc(expiration_ms[1] - now_ms, MsPerMinute)
    IN IF minutes_left <= 0 THEN <<"dhm", 0, 0, 0>>
       ELSE <<"dhm", minutes_left \div 1440, minutes_left \div 60,
              minutes_left % 60>>

\* format_time(expiration_ms)
format_time(expiration_ms, now_ms) ==
  IF expiration_ms = None THEN RetRaise
  ELSE IF expiration_ms[1] <= 0 THEN <<"-">>
  ELSE
    LET minutes_left == Trunc(expiration_ms[1] - now_ms, MsPerMinute)
    IN IF minutes_left <= 0 THEN <<"dhm", 0, 0, 0>>
       ELSE <<"dhm", minutes_left \div 1440, (minutes_left % 1440) \div 60,
              minutes_left % 60>>

\* dict.get(key, 0) of a JSON object: <<>> is a missing key, <<None>> a
\* null, <<Some(x)>> a number
dict_get(field, default) == IF field = <<>> THEN Some(default) ELSE field[1]

\* percent_premium and dollar_premium of a contract row of
\* fetch_currency_data, from the raw fields of the book summary
contract_premiums(mark_field, delivery_field) ==
  LET mark_price == dict_get(mark_field, 0)
      estimated_delivery == dict_get(delivery_field, 0)
  IN IF ~Falsy(estimated_delivery) /\ mark_price = None THEN RetRaise
     ELSE IF mark_price = None \/ estimated_delivery = None THEN RetRaise
     ELSE LET percent_premium ==
                IF ~Falsy(estimated_delivery)
                THEN RMul(RDiv(R(mark_price[1] - estimated_delivery[1]),
                               R(estimated_delivery[1])), R(100))
                ELSE R(0)
              dollar_premium == mark_price[1] - estimated_delivery[1]
          IN <<"row", percent_premium[1], percent_premium[2], dollar_premium>>

\* ------------------------------------------------------ contract order
\* A fetched instrument is <<kind, expiration>>: kind "perp" for a name
\* ending in -PERPETUAL, "fut" for a dated future, "skip" for an entry the
\* loop passes over (get_contracts: kind is not "future";
\* fetch_currency_data: no name).  Indexed adds its place in the fetched
\* list.
Indexed(fetched) ==
  [i \in 1..Len(fetched) |-> <<fetched[i][1], fetched[i][2], i>>]

IsPerpetualEntry(e) == e[1] = "perp"
IsDatedEntry(e) == e[1] = "fut"
IsFutureKind(e) == e[1] \in {"perp", "fut"}

\* list.sort / sorted with reverse=True
RECURSIVE sorted_by_expiration_reversed(_)
sorted_by_expiration_reversed(s) ==
  IF s = <<>> THEN <<>>
  ELSE LET x == s[Len(s)]
           rest == sorted_by_expiration_reversed(SubSeq(s, 1, Len(s) - 1))
           p == Cardinality({i \in 1..Len(rest) : rest[i][2] >= x[2]})
       IN SubSeq(rest, 1, p) \o <<x>> \o SubSeq(rest, p + 1, Len(rest))

\* futures_list.sort(key=lambda x: x["expiration"]) and
\* sorted(..., key=lambda x: x["exp"]): ascending, equal keys in their
\* original order
RECURSIVE sorted_by_expiration(_)
sorted_by_expiration(s) ==
  IF s = <<>> THEN <<>>
  ELSE LET x == s[Len(s)]
           rest == sorted_by_expiration(SubSeq(s, 1, Len(s) - 1))
           p == Cardinality({i \in 1..Len(rest) : rest[i][2] <= x[2]})
       IN SubSeq(rest, 1, p) \o <<x>> \o SubSeq(rest, p + 1, Len(rest))

\* get_contracts: the instruments of kind "future", the perpetual first,
\* then the others by expiration
get_contracts(instruments) ==
  LET contracts == SelectSeq(Indexed(instruments), IsFutureKind)
      perpetual == SelectSeq(contracts, IsPerpetualEntry)
      futures == sorted_by_expiration(SelectSeq(contracts, IsDatedEntry))
  IN perpetual \o futures

\* fetch_currency_data: the perpetual's row when its book summary came,
\* then the rows of futures_data (the perpetual and the nameless entries
\* skipped) sorted by expiration
contract_order(perpetual_data, futures_data) ==
  LET perp == IF perpetual_data THEN << <<"perp", 0, 0>> >> ELSE <<>>
      futures_list == SelectSeq(Indexed(futures_data), IsDatedEntry)
  IN perp \o sorted_by_expiration(futures_list)

\* ------------------------------------------------ inputs of the functions
FundingPrices == {None, Some(0), Some(3998), Some(3999), Some(4000),
                  Some(4001), Some(4002), Some(4400)}
AprPrices == {None, Some(0), Some(90), Some(100), Some(110)}
NowReadings == {120000}
Expirations ==
  {None, Some(-60000), Some(0), Some(60000), Some(120000), Some(150000),
   Some(120000 + 90 * 60000), Some(120000 + 1440 * 60000)}
\* expirations format_time is called with: those above, one with a part of
\* a minute left over and one more than a day away
FormatExpirations ==
  Expirations \cup {Some(120000 + 90 * 60000 + 59999),
                    Some(120000 + 1501 * 60000 + 1)}
Fields(prices) == {<<>>} \cup {<<x>> : x \in prices}
\* fetched lists of up to MaxFetched instruments; expiration 0 is also what
\* instruments.get(name, 0) gives a future the instrument list lacks
FetchedEntries == {<<"perp", 0>>, <<"skip", 0>>, <<"fut", 0>>, <<"fut", 1>>}
FetchedLists ==
  UNION {[1..n -> FetchedEntries] : n \in 0..MaxFetched}

MetricFrame ==
  UNCHANGED <<tool, pc, cur, data, ws, now, needs, success, changes, ops,
              slept, intAt, exitVia, prev, same, writes>>

CallFundingRate ==
  /\ \E m \in FundingPrices, i \in FundingPrices :
       /\ call' = <<"calculate_funding_rate", m, i>>
       /\ ret' = calculate_funding_rate(m, i)
  /\ MetricFrame

CallApr ==
  /\ \E m \in AprPrices, i \in AprPrices, e \in Expirations, t \in NowReadings :
       /\ call' = <<"calculate_apr", m, i, e, t>>
       /\ ret' = calculate_apr(m, i, e, t)
  /\ MetricFrame

CallFormatTime ==
  /\ \E e \in FormatExpirations, t \in NowReadings :
       /\ call' = <<"format_time", e, t>>
       /\ ret' = format_time(e, t)
  /\ MetricFrame

CallContractPremiums ==
  /\ \E m \in Fields(AprPrices), d \in Fields(AprPrices) :
       /\ call' = <<"contract_premiums", m, d>>
       /\ ret' = contract_premiums(m, d)
  /\ MetricFrame

CallPercentageMatrix ==
  /\ \E c \in CurrencySet, n \in 2..MaxN, p \in PerpMarks,
        q \in PerpMarks \cup {Some(0)}, ans \in [Pairs(MaxN) -> SpreadAnswers] :
       /\ call' = <<"create_percentage_matrix", create_matrix(c, n, p, ans), q>>
       /\ ret' = RetMatrix(create_percentage_matrix(create_matrix(c, n, p, ans), q))
  /\ MetricFrame

CallGetContracts ==
  /\ \E l \in FetchedLists :
       /\ call' = <<"get_contracts", l>>
       /\ ret' = <<"list", get_contracts(l)>>
  /\ MetricFrame

CallContractOrder ==
  /\ \E p \in BOOLEAN, l \in FetchedLists :
       /\ call' = <<"contract_order", p, l>>
       /\ ret' = <<"list", contract_order(p, l)>>
  /\ MetricFrame

\* answers for one pair when create_matrix is called on its own: a zero and
\* a negative mark price included
SpreadAnswersWide ==
  {<<"none", None>>, <<"fwd", None>>, <<"fwd", Some(254)>>,
   <<"rev", Some(-254)>>, <<"rev", Some(0)>>}

\* one call of create_matrix
CallCreateMatrix ==
  /\ call = <<"none">>
  /\ \E c \in CurrencySet, n \in 0..MaxContracts, p \in PerpMarks,
        ans \in [Pairs(MaxContracts) -> SpreadAnswersWide] :
       /\ call' = <<"create_matrix", c, n, p, ans>>
       /\ ret' = RetMatrix(create_matrix(c, n, p, ans))
  /\ MetricFrame

InitMetric ==
  /\ tool = "metric" /\ pc = "call" /\ cur = 1 /\ data = EmptyData
  /\ ws = BlankSheet /\ now = 0
  /\ needs = FALSE /\ success = FALSE /\ changes = {} /\ ops = <<>>
  /\ slept = 0 /\ intAt = "none" /\ exitVia = "none"
  /\ prev = EmptyData /\ same = FALSE /\ writes = 0
  /\ call = <<"none">> /\ ret = <<"none">>

NextMetric ==
  \/ CallFundingRate \/ CallApr \/ CallFormatTime \/ CallContractPremiums
  \/ CallPercentageMatrix
  \/ CallGetContracts \/ CallContractOrder

SpecMetric == InitMetric /\ [][NextMetric]_vars

SpecCreateMatrix == InitMetric /\ [][CallCreateMatrix]_vars

Init ==
  /\ tool \in {"apr", "matrix"}
  /\ pc = "fetch" /\ cur = 1 /\ data = EmptyData
  /\ ws = BlankSheet /\ now = 0
  /\ needs = FALSE /\ success = FALSE /\ changes = {} /\ ops = <<>>
  /\ slept = 0 /\ intAt = "none" /\ exitVia = "none"
  /\ prev = EmptyData /\ same = FALSE /\ writes = 0
  /\ call = <<"none">> /\ ret = <<"none">>

\* The steps the program takes by itself.
Step ==
  \/ AprFetch \/ AprRead \/ AprClear \/ AprStructure \/ AprWrite
  \/ MxFetch \/ MxRead \/ MxWrite
  \/ Report \/ LoopError \/ Sleep \/ Backoff

Next == Step \/ KeyboardInterrupt

Spec == Init /\ [][Next]_vars

\* Every blocking call returns (the requests carry a timeout, the sleeps
\* end), so the loop always takes its next step.
FairSpec == Spec /\ WF_vars(Step)
\* ================================================================ claims
OpsSet == {ops[i] : i \in 1..Len(ops)}

\* The grid update_sheet means the sheet to show.
IntendedGrid ==
  LET nd == new_data(spread_data(data), percentage_data(data), now)
  IN [r \in 1..SheetRows |-> [c \in 1..SheetCols |->
        IF r <= Len(nd) /\ c <= Len(nd[r]) THEN nd[r][c] ELSE Blank]]

\* The second of two update_sheet runs on identical input, the first one
\* applied: the diff has been taken.
SecondRunSameInput == tool = "matrix" /\ same /\ pc \in {"write", "report"}

\* C1 (as amended): when update_sheet ran, its changes were applied, and it
\* runs again on identical input, the second run finds no differing cell
\* other than the timestamp cell A1.
C1_SecondRunOnlyTimestamp ==
  SecondRunSameInput => \A q \in changes : q.range = <<1, 1>>

\* C1 witness: a second run on the same (non-empty) input whose one request
\* is the timestamp cell.
C1_Witness ==
  /\ SecondRunSameInput /\ pc = "write"
  /\ changes = {[range |-> <<1, 1>>, values |-> Ts(now)]}
  /\ \A c \in CurrencySet : data[c] # <<>>

\* C1 (as stated): the second run finds zero differing cells and issues no
\* cell update.
C1_SecondRunNoUpdates == SecondRunSameInput => changes = {}

IsStructure(x) == x = Headers \/ \E c \in CurrencySet : x = Marker(c)

\* C2 (as stated): a data-only update never writes a row that holds a
\* section marker or the column headers.
C2_HeadersNeverRewritten ==
  [][(tool = "apr" /\ pc = "write" /\ pc' = "report" /\ success')
       => \A r \in 1..SheetRows : IsStructure(ws[r][1]) => ws'[r] = ws[r]]_vars

\* C3 (as stated): after a successful update_sheet the worksheet shows the
\* new intended grid and nothing else.
C3_SheetShowsNewGrid ==
  (tool = "matrix" /\ pc = "report" /\ success /\ Io("read", "") \in OpsSet)
    => ws = IntendedGrid

IsDataOf(x, c) == Len(x) = 3 /\ x[1] = "data" /\ x[2] = c

\* The request's row lies in the block under the marker and headers of the
\* currency whose contract it holds.
UnderOwnMarker(q) ==
  LET c == q.values[2]
      r == q.range[1]
  IN \E m \in 1..(r - 2) :
       /\ ws[m][1] = Marker(c) /\ ws[m + 1][1] = Headers
       /\ \A k \in (m + 2)..r : IsDataOf(ws[k][1], c)

\* C4 (as stated): in a cycle in which a currency failed, the rows of every
\* other currency are written under that currency's own marker and headers.
C4_FailureIsolation ==
  (/\ tool = "apr" /\ pc = "report" /\ success /\ ~needs
   /\ \E c \in CurrencySet : data[c] = <<>>)
    => \A q \in changes : UnderOwnMarker(q)

CycleStart == pc = "fetch" /\ cur = 1 /\ ops = <<>>

NoRetry == \A i, j \in 1..Len(ops) : i # j => ops[i] # ops[j]

\* C5: a failed cycle and an exception reaching the loop never end the
\* process: it sleeps (UPDATE_INTERVAL after a failed cycle, the backoff
\* after an exception) and starts another cycle; no call is repeated within
\* a cycle; only a keyboard interrupt ends the loop, and without one a next
\* cycle always eventually starts.
C5_LoopSurvives ==
  /\ [](pc = "stopped" => intAt # "none")
  /\ []NoRetry
  /\ [](pc = "sleep" => slept = UPDATE_INTERVAL)
  /\ [](pc = "backoff" => slept = IF tool = "apr" THEN AprBackoff ELSE MatrixBackoff)
  /\ ((pc = "report" /\ ~success) ~> (pc \in {"sleep", "backoff", "stopped"}))
  /\ ((pc \in {"sleep", "backoff"}) ~> (CycleStart \/ pc = "stopped"))
  /\ ([]<>CycleStart \/ <>(pc = "stopped"))

\* C5 witness: the sheet write of the cycle failed and the loop is in its
\* normal sleep.
C5_Witness ==
  /\ pc = "sleep" /\ ~success /\ slept = UPDATE_INTERVAL
  /\ Io("write", "") \in OpsSet

MidCycle == {"fetch", "read", "clear", "structure", "write"}

\* C6 (as stated): an interrupt, wherever it arrives, ends the loop through
\* the shutdown branch, and never part-way through a cycle.
C6_InterruptOnlyBetweenCycles ==
  intAt # "none"
    => pc = "stopped" /\ exitVia = "shutdown" /\ intAt \notin MidCycle

IsCall(f) == call[1] = f

\* ((mark - index) / index) * 100
Premium(mark, index) == Norm((mark - index) * 100, index)

\* C7: calculate_funding_rate is None for a zero or missing mark or index;
\* otherwise it is 0 when |premium| <= 0.025, (premium - 0.025)/100 above
\* the band and (premium + 0.025)/100 below it.
C7_FundingRate ==
  IsCall("calculate_funding_rate") =>
    LET mark == call[2]
        index == call[3]
    IN IF mark \in {None, Some(0)} \/ index \in {None, Some(0)}
       THEN ret = RetNone
       ELSE LET p == Premium(mark[1], index[1])
            IN IF 40 * p[1] > p[2]
               THEN ret = RetNum(Norm(40 * p[1] - p[2], 4000 * p[2]))
               ELSE IF 40 * p[1] < -p[2]
               THEN ret = RetNum(Norm(40 * p[1] + p[2], 4000 * p[2]))
               ELSE ret = RetNum(R(0))

\* C7 witness: a premium on the edge of the band (mark 4001, index 4000:
\* 0.025 percent) is damped to 0.
C7_Witness ==
  call = <<"calculate_funding_rate", Some(4001), Some(4000)>> /\ ret = RetNum(R(0))

\* calculate_apr's result for numbers: 0 for a zero or absent index, a
\* non-positive expiration or one not after now_ms; otherwise
\* (mark - index) * 525600 * 100 * 60000 / (index * (expiration_ms - now_ms)).
AprAsSpecified ==
  IsCall("calculate_apr") =>
    LET mark == call[2]
        index == call[3]
        expiration == call[4]
        now_ms == call[5]
    IN IF index \in {None, Some(0)} THEN ret = RetNum(R(0))
       ELSE IF expiration = None \/ mark = None THEN TRUE
       ELSE IF expiration[1] <= 0 \/ expiration[1] <= now_ms THEN ret = RetNum(R(0))
       ELSE ret = RetNum(RMul(Norm(mark[1] - index[1], index[1]),
                              RMul(R(MinutesPerYear * 100),
                                   Norm(MsPerMinute, expiration[1] - now_ms))))

AprExampleCall ==
  call = <<"calculate_apr", Some(110), Some(100), Some(120000 + 1440 * 60000), 120000>>

\* C8 (as amended): calculate_apr is 0 for a zero or absent index, a
\* non-positive expiration or an expiration not after the current time, and
\* otherwise ((mark/index) - 1) * 525600 / minutes_to_expiry * 100; mark 110,
\* index 100, 1440 minutes left gives 3650.
C8_Apr == AprAsSpecified /\ (AprExampleCall => ret = RetNum(R(3650)))

\* C8 witness: the example call has been made and returned a number.
C8_Witness == AprExampleCall /\ ret[1] = "num"

\* C8 (as stated): the same, with the example giving 3660.
C8_AprExample3660 == AprAsSpecified /\ (AprExampleCall => ret = RetNum(R(3660)))

\* C9 (as stated): with a zero or absent estimated delivery price both
\* premiums are 0 and nothing is raised; otherwise percent_premium is
\* (mark - delivery)/delivery * 100 and dollar_premium is mark - delivery
\* (for a mark price that is a number or a missing key, read as 0).
C9_PremiumDefaults ==
  IsCall("contract_premiums") =>
    LET mark == call[2]
        delivery == call[3]
    IN mark # <<None>> =>
         IF delivery \in {<<>>, <<None>>, <<Some(0)>>}
         THEN ret = <<"row", 0, 1, 0>>
         ELSE LET m == dict_get(mark, 0)[1]
                  d == delivery[1][1]
              IN ret = <<"row", Norm((m - d) * 100, d)[1],
                         Norm((m - d) * 100, d)[2], m - d>>

\* C10 (as stated): no metric function lets an exception escape.
C10_NoExceptionEscapes == ret[1] # "raise"

\* C11: format_time of a numeric expiration_ms is "-" when it is not
\* positive, "0d 0h 0m" when less than one whole minute remains or the
\* expiry has passed, and otherwise "{d}d {h}h {m}m" with
\* d*1440 + h*60 + m the whole minutes left, 0 <= h < 24 and 0 <= m < 60;
\* 90 minutes left gives "0d 1h 30m".
C11_FormatTime ==
  (IsCall("format_time") /\ call[2] # None) =>
    LET e == call[2][1]
        left == e - call[3]
    IN IF e <= 0 THEN ret = <<"-">>
       ELSE IF left < MsPerMinute THEN ret = <<"dhm", 0, 0, 0>>
       ELSE /\ ret[1] = "dhm"
            /\ ret[2] * 1440 + ret[3] * 60 + ret[4] = left \div MsPerMinute
            /\ ret[2] >= 0 /\ ret[3] \in 0..23 /\ ret[4] \in 0..59
            /\ (left = 90 * MsPerMinute => ret = <<"dhm", 0, 1, 30>>)

\* C11 witness: more than a day and a part of a minute are left: 1501 whole
\* minutes are "1d 1h 1m".
C11_Witness ==
  /\ call = <<"format_time", Some(120000 + 1501 * 60000 + 1), 120000>>
  /\ ret = <<"dhm", 1, 1, 1>>

IsListCall == call[1] \in {"get_contracts", "contract_order"}

\* the dated futures of the fetched list of the call, as places in it
DatedPlaces ==
  LET l == call[Len(call)]
  IN {i \in 1..Len(l) : l[i][1] = "fut"}

\* C12: in every contract list built (get_contracts, fetch_currency_data)
\* the perpetual comes before every dated future, the dated futures are
\* all there, ascending by expiration, and those with equal expiration
\* keep their fetch order.
C12_SortOrder ==
  IsListCall =>
    LET L == ret[2]
    IN /\ \A i, j \in 1..Len(L) :
            i < j =>
              /\ ~(L[i][1] = "fut" /\ L[j][1] = "perp")
              /\ (L[i][1] = "fut" /\ L[j][1] = "fut") =>
                   \/ L[i][2] < L[j][2]
                   \/ L[i][2] = L[j][2] /\ L[i][3] < L[j][3]
       /\ {L[i][3] : i \in {k \in 1..Len(L) : L[k][1] = "fut"}} = DatedPlaces
       /\ \A i \in 1..Len(L) : L[i][1] \in {"perp", "fut"}

\* C12 witness: a later future was fetched first, then two with the same
\* expiration; the list is the perpetual, then the two in fetch order, then
\* the later one.
C12_Witness ==
  /\ call = <<"contract_order", TRUE,
              <<<<"fut", 1>>, <<"fut", 0>>, <<"fut", 0>>>>>>
  /\ ret = <<"list", <<<<"perp", 0, 0>>, <<"fut", 0, 2>>, <<"fut", 0, 3>>,
                       <<"fut", 1, 1>>>>>>

IsNumericCell(v) == v # Blank /\ v # Dash /\ v[1] = "fix1"

\* p is spread / perpetual * 100 to 4 decimals followed by "%": spread v
\* in tenths, perpetual q in hundredths, p in ten-thousandths of a percent
IsPercentOf(p, v, q) ==
  /\ p[1] = "pct"
  /\ 2 * Abs(p[2] * q - v * 10000000) <= q

SameShape(a, b) ==
  /\ Len(a) = Len(b)
  /\ \A i \in 1..Len(a) : Len(a[i]) = Len(b[i])

\* C14 (as amended): with a zero or absent perpetual price
\* create_percentage_matrix returns no matrix at all (an empty list);
\* otherwise the percentage matrix has the rows and columns of the spread
\* matrix, a numeric spread cell becomes spread / perpetual * 100 to 4
\* decimals with "%" (2.5 and 50000 give "0.0050%"), and every other cell
\* ("-" or blank) is copied as it is.
C14_PercentageCells ==
  IsCall("create_percentage_matrix") =>
    LET sm == call[2]
        q == call[3]
        pm == ret[2]
    IN IF q \in {None, Some(0)} THEN pm = <<>>
       ELSE /\ SameShape(pm, sm)
            /\ pm[1] = sm[1]
            /\ \A i \in 2..Len(sm) :
                 /\ pm[i][1] = sm[i][1]
                 /\ \A j \in 2..Len(sm[i]) :
                      IF IsNumericCell(sm[i][j])
                      THEN /\ IsPercentOf(pm[i][j], sm[i][j][2], q[1])
                           /\ (sm[i][j][2] = 25 /\ q[1] = 5000000)
                                => pm[i][j] = <<"pct", 50>>
                      ELSE pm[i][j] = sm[i][j]

\* C14 witness: spread 2.5 over a perpetual at 50000 reads "0.0050%", and
\* the "-" of the diagonal is still "-".
C14_Witness ==
  /\ IsCall("create_percentage_matrix") /\ call[3] = Some(5000000)
  /\ call[2][2][3] = <<"fix1", 25>>
  /\ ret[2][2][3] = <<"pct", 50>> /\ ret[2][2][2] = Dash

\* C14 (as stated): the percentage matrix has the rows and columns of the
\* spread matrix; a data cell is the percentage when the spread cell is
\* numeric and the perpetual price is not zero or absent, and blank
\* otherwise.
C14_BlankWhenUndefined ==
  IsCall("create_percentage_matrix") =>
    LET sm == call[2]
        q == call[3]
        pm == ret[2]
    IN /\ SameShape(pm, sm)
       /\ \A i \in 2..Len(sm) : \A j \in 2..Len(sm[i]) :
            IF IsNumericCell(sm[i][j]) /\ q \notin {None, Some(0)}
            THEN IsPercentOf(pm[i][j], sm[i][j][2], q[1])
            ELSE pm[i][j] = Blank

\* the cycle took the structure-setup path and its writes succeeded
SetupCycleDone == tool = "apr" /\ pc = "report" /\ success /\ needs

\* C15 (as stated): the structure-setup path is taken in at most one cycle:
\* once a cycle has cleared the sheet and written the structure, the sheet
\* it leaves does not ask for the structure again, so the next cycle writes
\* the contract values.
C15_StructureSetUpOnce ==
  SetupCycleDone => ~needs_structure(get_all_values(ws))

====
